---- MODULE Spec2Model ----
(***************************************************************************)
(* Model of src/app/main.py: an RSS poller that posts every new feed entry *)
(* to a Discord webhook and remembers the posted ids in a SQLite table.    *)
(*                                                                         *)
(* Strings are tuples of one-character strings, so that str.strip() and    *)
(* the f-string of normalize_id are computed and not assumed.  Python's    *)
(* None is the tuple None below (no text is equal to it).  An optional     *)
(* time (published_parsed, updated_parsed) is <<>> when absent and <<d>>   *)
(* when present, d an integer count of days since 1970-01-01 (negative     *)
(* before it); struct_time values compare as these integers do.            *)
(* Durations are in tenths of a second.                                    *)
(***************************************************************************)
EXTENDS Integers, Sequences, FiniteSets, TLC

VARIABLES
    pc,            \* position of the process in main()
    max_posts,     \* MAX_POSTS_PER_CYCLE as read at startup
    store,         \* rows of posted_items committed to the SQLite file
    pending,       \* rows inserted on the open connection, not yet committed
    entries,       \* the cycle's entries, after sort_entries_newest_first
    idx,           \* position of the for loop in entries
    posted_count,  \* posted_count of the running cycle
    resp,          \* status of the last response (0: none)
    resp_body,     \* body of the 429 response
    nposts,        \* POSTs answered in the running post_to_discord_webhook
    slept,         \* the last time.sleep: <<what, tenths of a second>>
    dbfails,       \* SQLite errors raised so far
    crashes,       \* terminations of the process so far
    accepted,      \* per id: POSTs the endpoint answered with 200 or 204
    interrupted,   \* per id: accepted POSTs whose ledger write did not complete
    cycleStart,    \* ids the ledger held when the running cycle fetched
    attempted,     \* ids POSTed in the running cycle
    delivered,     \* ids whose post_to_discord_webhook returned, in order
    cycleErr,      \* what ended the running cycle early ("none" if nothing)
    failedId,      \* id whose delivery raised in the running cycle, or None
    retryDue,      \* id whose delivery raised in the previous cycle of this
                   \* process, when this cycle fetched the same snapshot
    recorded,      \* ids for which db_add has returned, in any run
    rawInput,      \* arguments of the call (SortSpec, LedgerSpec, IdSpec)
    sortedOut,     \* result of sort_entries_newest_first (SortSpec)
    redoDue,       \* id whose db_add raised in the previous cycle of this
                   \* process, when this cycle fetched the same snapshot
    idOut,         \* result of normalize_id (IdSpec)
    env,           \* the environment main() reads its configuration from
    conn,          \* the SQLite connection of main(): "closed" or "open"
    bad,           \* id the endpoint refuses in every cycle (SteadySpec)
    cycles         \* polls that fetched the snapshot so far (SteadySpec)

vars == <<pc, max_posts, store, pending, entries, idx, posted_count, resp,
          resp_body, nposts, slept, dbfails, crashes, accepted, interrupted,
          cycleStart, attempted, delivered, cycleErr, failedId, retryDue,
          recorded, rawInput, sortedOut, redoDue, idOut, env, conn, bad,
          cycles>>

----------------------------------------------------------------------------
(* Bounds of the model *)

MaxCap == 2
MaxCrashes == 1
MaxDbFails == 1
MaxTime == 2

(* Program constants *)

CheckIntervalSeconds == 300
DelayBetweenSeconds == 3
DefaultRetryAfter == 20

----------------------------------------------------------------------------
(* Python values *)

None == <<"None">>

Truthy(v) == v # None /\ v # <<>>

\* x or y
Or(x, y) == IF Truthy(x) THEN x ELSE y

IsSpace(c) == c = " "

RECURSIVE LStrip(_)
LStrip(s) ==
    IF s = <<>> THEN <<>>
    ELSE IF IsSpace(Head(s)) THEN LStrip(Tail(s)) ELSE s

RECURSIVE RStrip(_)
RStrip(s) ==
    IF s = <<>> THEN <<>>
    ELSE IF IsSpace(s[Len(s)]) THEN RStrip(SubSeq(s, 1, Len(s) - 1)) ELSE s

Strip(s) == RStrip(LStrip(s))

----------------------------------------------------------------------------
(* Feed entries *)

Ent(i, g, l, t, p, u, pp, up) ==
    [id |-> i, guid |-> g, link |-> l, title |-> t, published |-> p,
     updated |-> u, published_parsed |-> pp, updated_parsed |-> up]

\* the guid looked at before the id
GuidFirst(entry) ==
    IF Truthy(entry.guid) THEN Strip(entry.guid)
    ELSE IF Truthy(entry.id) THEN Strip(entry.id)
    ELSE IF Truthy(entry.link) THEN Strip(entry.link)
    ELSE Strip(Or(entry.title, <<>>)) \o <<":", ":">>
         \o Strip(Or(Or(entry.published, entry.updated), <<>>))

\* normalize_id: id, then guid, then link, then "title::published"
normalize_id(entry) ==
    IF Truthy(entry.id) THEN Strip(entry.id)
    ELSE IF Truthy(entry.guid) THEN Strip(entry.guid)
    ELSE IF Truthy(entry.link) THEN Strip(entry.link)
    ELSE Strip(Or(entry.title, <<>>)) \o <<":", ":">>
         \o Strip(Or(Or(entry.published, entry.updated), <<>>))

\* title and link as main() derives them
TitleOf(entry) == Strip(Or(entry.title, <<>>))
LinkOf(entry) == Strip(Or(entry.link, <<>>))

\* a check of the link alone
ValidLinkOnly(entry) == LinkOf(entry) # <<>>

\* "if not title or not link: continue" lets these through
Valid(entry) == TitleOf(entry) # <<>> /\ LinkOf(entry) # <<>>

\* the sort key: published_parsed or updated_parsed, time.gmtime(0) when None
SortKey(e) ==
    LET t == IF e.published_parsed # <<>> THEN e.published_parsed
             ELSE e.updated_parsed
    IN  IF t # <<>> THEN t[1] ELSE 0

\* sorted(..., reverse=True) is stable: an element goes after every element
\* already placed whose key is greater than or equal to its own
InsertDesc(acc, e) ==
    LET p == Cardinality({i \in 1..Len(acc) : SortKey(acc[i]) >= SortKey(e)})
    IN  SubSeq(acc, 1, p) \o <<e>> \o SubSeq(acc, p + 1, Len(acc))

RECURSIVE SortInto(_, _)
SortInto(acc, rest) ==
    IF rest = <<>> THEN acc
    ELSE SortInto(InsertDesc(acc, Head(rest)), Tail(rest))

sort_entries_newest_first(es) == SortInto(<<>>, es)

----------------------------------------------------------------------------
(* The ledger: table posted_items, item_id its primary key *)

Row(i, t, l, at) == [item_id |-> i, title |-> t, link |-> l, posted_at |-> at]

LedgerIds(rows) == {r.item_id : r \in rows}

\* what a SELECT or INSERT on the open connection sees
Visible(st, pend) == st \cup pend

\* db_has: SELECT 1 FROM posted_items WHERE item_id = ? LIMIT 1
db_has(st, pend, i) == \E r \in Visible(st, pend) : r.item_id = i

\* the primary key: a row with this item_id is already there
Conflict(st, pend, row) ==
    \E r \in Visible(st, pend) : r.item_id = row.item_id

\* an INSERT that never inserts
InsertNothing(st, pend, row) == [raises |-> FALSE, rows |-> pend]

\* a plain INSERT: sqlite3.IntegrityError when the key is there
InsertPlain(st, pend, row) ==
    [raises |-> Conflict(st, pend, row),
     rows |-> IF Conflict(st, pend, row) THEN pend ELSE pend \cup {row}]

\* INSERT OR IGNORE: whether the statement raises, and the rows the
\* connection holds uncommitted afterwards
InsertOrIgnore(st, pend, row) ==
    [raises |-> FALSE,
     rows |-> IF Conflict(st, pend, row) THEN pend ELSE pend \cup {row}]

\* a commit that writes nothing
CommitNothing(st, pend) == st

\* conn.commit(): the rows of the file afterwards
Commit(st, pend) == st \cup pend

----------------------------------------------------------------------------
(* The webhook *)

Statuses == {200, 204, 429, 500}

\* everything but a rate limit taken for success
SuccessUnlessRateLimited(status) == status # 429

\* "resp.status_code not in (200, 204)" is what raises
Success(status) == status \in {200, 204}

\* bodies of a 429 response: not JSON, JSON without retry_after, a
\* retry_after float() rejects, and a number (tenths of a second)
RetryBodies ==
    {[kind |-> "notjson", val |-> 0], [kind |-> "nokey", val |-> 0],
     [kind |-> "badvalue", val |-> 0], [kind |-> "num", val |-> 15]}

\* float(data.get("retry_after", 2.0)), 2.0 on any exception
RetryAfterOf(body) ==
    IF body.kind = "num" THEN body.val ELSE DefaultRetryAfter

----------------------------------------------------------------------------
(* The feed: the entries a poll may find *)

\* id "a", newest
P1 == Ent(<<"a">>, None, <<"x">>, <<"A">>, <<"3">>, None, <<3>>, <<>>)
\* no id, guid "b"
P2 == Ent(None, <<"b">>, <<"y">>, <<"B">>, <<"2">>, None, <<2>>, <<>>)
\* the id of P1 again, padded, under another title; no time
P4 == Ent(<<"a", " ">>, None, <<"x">>, <<"D">>, None, None, <<>>, <<>>)
\* a blank title
P5 == Ent(<<"e">>, None, <<"w">>, <<" ">>, <<"4">>, None, <<4>>, <<>>)
\* a blank id, a padded link, only an updated time
P6 == Ent(<<" ">>, None, <<" ", "v">>, <<"F">>, None, <<"1">>, <<>>, <<1>>)

Feeds ==
    {<<P2, P1>>, <<P1, P4>>, <<P6, P2, P1>>, <<P5, P1>>}

Pool == UNION {{f[i] : i \in 1..Len(f)} : f \in Feeds}

AllIds == {normalize_id(e) : e \in Pool}

----------------------------------------------------------------------------
(* The configuration: the environment and the checks of lines 131-145 *)

EnvOf(w, r, q) == [WEBHOOK_URL |-> w, RSS_URL |-> r, SQLITE_PATH |-> q]

\* require_env: "if not v: raise RuntimeError", the value otherwise
require_env(e, name) == [raises |-> ~Truthy(e[name]), value |-> e[name]]

Letters == {"h", "t", "p", "s", "x", "f", "H", "T", "P", "S"}

\* str.lower on the letters of the model
Lower(c) ==
    CASE c = "H" -> "h" [] c = "T" -> "t" [] c = "P" -> "p" [] c = "S" -> "s"
      [] OTHER -> c

\* urlparse(url).scheme: the letters before the first colon, lowercased,
\* and "" when there is no colon or something else stands before it
UrlScheme(url) ==
    LET colons == {k \in 1..Len(url) : url[k] = ":"}
    IN  IF colons = {} THEN <<>>
        ELSE LET i == CHOOSE k \in colons : \A j \in colons : k <= j
             IN  IF i > 1 /\ \A k \in 1..(i - 1) : url[k] \in Letters
                 THEN [k \in 1..(i - 1) |-> Lower(url[k])]
                 ELSE <<>>

\* parsed.scheme.startswith("http")
SchemeAccepted(scheme) ==
    Len(scheme) >= 4 /\ SubSeq(scheme, 1, 4) = <<"h", "t", "t", "p">>

UrlHttps == <<"h", "t", "t", "p", "s", ":", "/", "/", "d">>
UrlHttp == <<"h", "t", "t", "p", ":", "/", "/", "d">>
UrlUpper == <<"H", "T", "T", "P", "S", ":", "/", "/", "d">>
UrlHttpx == <<"h", "t", "t", "p", "x", ":", "/", "/", "d">>
UrlFtp == <<"f", "t", "p", ":", "/", "/", "d">>
UrlBare == <<"d", "/", "h", "t", "t", "p">>

WebhookUrls == {UrlHttps, UrlHttp, UrlUpper, UrlHttpx, UrlFtp, UrlBare}

\* what the three required keys may hold: unset, empty, a value
Envs ==
    {EnvOf(w, r, q) : w \in {None, <<>>} \cup WebhookUrls,
                      r \in {None, <<>>, <<"r">>},
                      q \in {None, <<>>, <<"q">>}}

DefaultEnv == EnvOf(UrlHttps, <<"r">>, <<"q">>)

\* lines 131-145 raise nothing
StartupPasses(e) ==
    /\ ~require_env(e, "WEBHOOK_URL").raises
    /\ ~require_env(e, "RSS_URL").raises
    /\ ~require_env(e, "SQLITE_PATH").raises
    /\ SchemeAccepted(UrlScheme(require_env(e, "WEBHOOK_URL").value))

----------------------------------------------------------------------------
(* main() *)

Cur == entries[idx]
item_id == normalize_id(Cur)

Bump(f, i) == [f EXCEPT ![i] = @ + 1]

NoBody == [kind |-> "none", val |-> 0]

\* int(time.time()): the clock reads more after every start of the process
Now == 1 + crashes

\* a successful POST of the running delivery waits for its ledger write
AwaitsRecord ==
    \/ pc = "status" /\ Success(resp)
    \/ pc \in {"add_exec", "add_commit"}

\* what no run has touched yet
Fresh ==
    /\ store = {}
    /\ pending = {}
    /\ entries = <<>>
    /\ idx = 1
    /\ posted_count = 0
    /\ resp = 0
    /\ resp_body = NoBody
    /\ nposts = 0
    /\ slept = <<"none", 0>>
    /\ dbfails = 0
    /\ crashes = 0
    /\ accepted = [i \in AllIds |-> 0]
    /\ interrupted = [i \in AllIds |-> 0]
    /\ cycleStart = {}
    /\ attempted = {}
    /\ delivered = <<>>
    /\ cycleErr = "none"
    /\ failedId = None
    /\ retryDue = None
    /\ recorded = {}
    /\ sortedOut = <<>>
    /\ redoDue = None
    /\ idOut = <<>>
    /\ conn = "closed"
    /\ cycles = 0

Init ==
    /\ pc = "start"
    /\ max_posts \in 0..MaxCap
    /\ rawInput = <<>>
    /\ env = DefaultEnv
    /\ bad = None
    /\ Fresh

\* no handler: the exception ends the process
Unhandled(kind) ==
    /\ pc' = "dead"
    /\ cycleErr' = kind

\* "except Exception as e: log.exception(...)", then the sleep of line 202
Handler(kind) ==
    /\ pc' = "sleep"
    /\ cycleErr' = kind

\* what every poll starts with: the bookkeeping of the new cycle
NewCycle ==
    /\ cycleStart' = LedgerIds(Visible(store, pending))
    /\ attempted' = {}
    /\ delivered' = <<>>
    /\ failedId' = None

\* a db_connect that creates the table anew at every start
StartupRecreates ==
    /\ pc = "start"
    /\ StartupPasses(env)
    /\ conn' = "open"
    /\ pc' = "fetch"
    /\ store' = {}
    /\ pending' = {}
    /\ UNCHANGED <<max_posts, entries, idx, posted_count, resp, resp_body,
                   nposts, slept, dbfails, crashes, accepted, interrupted,
                   cycleStart, attempted, delivered, cycleErr, failedId,
                   retryDue, rawInput, sortedOut, recorded>>
    /\ UNCHANGED <<redoDue, idOut, env, bad, cycles>>

\* lines 129-152: the configuration is read and passes the checks,
\* db_connect opens the file
Startup ==
    /\ pc = "start"
    /\ StartupPasses(env)
    /\ conn' = "open"
    /\ pc' = "fetch"
    /\ pending' = {}
    /\ UNCHANGED <<max_posts, store, entries, idx, posted_count, resp,
                   resp_body, nposts, slept, dbfails, crashes, accepted,
                   interrupted, cycleStart, attempted, delivered, cycleErr,
                   failedId, retryDue, rawInput, sortedOut, recorded>>
    /\ UNCHANGED <<redoDue, idOut, env, bad, cycles>>

\* lines 131-145: require_env or the scheme check raises RuntimeError,
\* outside the try of the loop: main() ends before line 147
StartupFails ==
    /\ pc = "start"
    /\ ~StartupPasses(env)
    /\ pc' = "exited"
    /\ UNCHANGED <<max_posts, store, pending, entries, idx, posted_count,
                   resp, resp_body, nposts, slept, dbfails, crashes,
                   accepted, interrupted, cycleStart, attempted, delivered,
                   cycleErr, failedId, retryDue, rawInput, sortedOut,
                   recorded>>
    /\ UNCHANGED <<redoDue, idOut, env, conn, bad, cycles>>

\* fetch_rss raises (requests.get, raise_for_status): entries is not
\* assigned, and the stale one is not read again
FetchFail ==
    /\ pc = "fetch"
    /\ NewCycle
    /\ Handler("fetch")
    /\ entries' = <<>>
    /\ idx' = 1
    /\ retryDue' = None
    /\ redoDue' = None
    /\ UNCHANGED <<max_posts, store, pending, posted_count, resp, resp_body,
                   nposts, slept, dbfails, crashes, accepted, interrupted,
                   rawInput, sortedOut, recorded>>
    /\ UNCHANGED <<idOut, env, conn, bad, cycles>>

\* "if not entries": the sleep of line 161 and continue
FetchEmpty ==
    /\ pc = "fetch"
    /\ NewCycle
    /\ pc' = "sleep_empty"
    /\ cycleErr' = "none"
    /\ entries' = <<>>
    /\ idx' = 1
    /\ retryDue' = None
    /\ redoDue' = None
    /\ UNCHANGED <<max_posts, store, pending, posted_count, resp, resp_body,
                   nposts, slept, dbfails, crashes, accepted, interrupted,
                   rawInput, sortedOut, recorded>>
    /\ UNCHANGED <<idOut, env, conn, bad, cycles>>

\* lines 156-166: a snapshot with entries, sorted; posted_count = 0
Fetched ==
    /\ pc = "fetch"
    /\ NewCycle
    /\ \E f \in Feeds :
        /\ entries' = sort_entries_newest_first(f)
        /\ retryDue' = IF failedId # None /\ entries' = entries
                       THEN failedId ELSE None
        /\ redoDue' = IF cycleErr = "db" /\ entries' = entries
                      THEN delivered[Len(delivered)] ELSE None
    /\ idx' = 1
    /\ posted_count' = 0
    /\ pc' = "loop"
    /\ cycleErr' = "none"
    /\ UNCHANGED <<max_posts, store, pending, resp, resp_body, nposts, slept,
                   dbfails, crashes, accepted, interrupted, rawInput,
                   sortedOut, recorded>>
    /\ UNCHANGED <<idOut, env, conn, bad>>

FetchOk == Fetched /\ UNCHANGED cycles

\* the comparison off by one
CapExceeded == posted_count > max_posts

\* the break one post early
CapReachedEarly == posted_count + 1 >= max_posts

\* "if posted_count >= max_posts: break"
CapReached == posted_count >= max_posts

\* the for loop is exhausted: lines 194-197
LoopDone ==
    /\ pc = "loop"
    /\ idx > Len(entries)
    /\ pc' = "sleep"
    /\ UNCHANGED <<max_posts, store, pending, entries, idx, posted_count,
                   resp, resp_body, nposts, slept, dbfails, crashes,
                   accepted, interrupted, cycleStart, attempted, delivered,
                   cycleErr, failedId, retryDue, rawInput, sortedOut,
                   recorded>>
    /\ UNCHANGED <<redoDue, idOut, env, conn, bad, cycles>>

\* lines 168-169: break, then lines 194-197
LoopBreak ==
    /\ pc = "loop"
    /\ idx <= Len(entries)
    /\ CapReached
    /\ pc' = "sleep"
    /\ UNCHANGED <<max_posts, store, pending, entries, idx, posted_count,
                   resp, resp_body, nposts, slept, dbfails, crashes,
                   accepted, interrupted, cycleStart, attempted, delivered,
                   cycleErr, failedId, retryDue, rawInput, sortedOut,
                   recorded>>
    /\ UNCHANGED <<redoDue, idOut, env, conn, bad, cycles>>

\* "if not title or not link: continue"
SkipInvalid ==
    /\ pc = "loop"
    /\ idx <= Len(entries)
    /\ ~CapReached
    /\ ~Valid(Cur)
    /\ idx' = idx + 1
    /\ UNCHANGED <<pc, max_posts, store, pending, entries, posted_count,
                   resp, resp_body, nposts, slept, dbfails, crashes,
                   accepted, interrupted, cycleStart, attempted, delivered,
                   cycleErr, failedId, retryDue, rawInput, sortedOut,
                   recorded>>
    /\ UNCHANGED <<redoDue, idOut, env, conn, bad, cycles>>

\* a valid entry goes on to db_has
Evaluate ==
    /\ pc = "loop"
    /\ idx <= Len(entries)
    /\ ~CapReached
    /\ Valid(Cur)
    /\ pc' = "has"
    /\ UNCHANGED <<max_posts, store, pending, entries, idx, posted_count,
                   resp, resp_body, nposts, slept, dbfails, crashes,
                   accepted, interrupted, cycleStart, attempted, delivered,
                   cycleErr, failedId, retryDue, rawInput, sortedOut,
                   recorded>>
    /\ UNCHANGED <<redoDue, idOut, env, conn, bad, cycles>>

\* a lookup that never finds the id
KnownNever == FALSE

\* a lookup that also drops the id whose delivery raised in the last cycle
KnownOrFailed == db_has(store, pending, item_id) \/ item_id = retryDue

\* "if db_has(conn, item_id)"
Known == db_has(store, pending, item_id)

\* "if db_has(conn, item_id): continue"
SkipKnown ==
    /\ pc = "has"
    /\ Known
    /\ idx' = idx + 1
    /\ pc' = "loop"
    /\ UNCHANGED <<max_posts, store, pending, entries, posted_count, resp,
                   resp_body, nposts, slept, dbfails, crashes, accepted,
                   interrupted, cycleStart, attempted, delivered, cycleErr,
                   failedId, retryDue, rawInput, sortedOut, recorded>>
    /\ UNCHANGED <<redoDue, idOut, env, conn, bad, cycles>>

\* db_has returned False: post_to_discord_webhook is called
StartDeliver ==
    /\ pc = "has"
    /\ ~Known
    /\ pc' = "post"
    /\ UNCHANGED <<max_posts, store, pending, entries, idx, posted_count,
                   resp, resp_body, nposts, slept, dbfails, crashes,
                   accepted, interrupted, cycleStart, attempted, delivered,
                   cycleErr, failedId, retryDue, rawInput, sortedOut,
                   recorded>>
    /\ UNCHANGED <<redoDue, idOut, env, conn, bad, cycles>>

----------------------------------------------------------------------------
(* post_to_discord_webhook, called from line 181 *)

\* a retry on a server error too
RateLimitedOrError(status) == status \in {429, 500}

\* "if resp.status_code == 429"
RateLimited(status) == status = 429

\* the exception of post_to_discord_webhook reaches the handler of main();
\* the locals of the call are gone
DeliverRaises ==
    /\ Handler("deliver")
    /\ failedId' = item_id
    /\ resp' = 0
    /\ resp_body' = NoBody
    /\ nposts' = 0

\* line 111: the first requests.post returns a response
Post1 ==
    /\ pc = "post"
    /\ \E s \in Statuses :
        /\ resp' = s
        /\ accepted' = IF Success(s) THEN Bump(accepted, item_id) ELSE accepted
        /\ IF RateLimited(s)
           THEN /\ resp_body' \in RetryBodies
                /\ pc' = "retry_sleep"
           ELSE /\ resp_body' = NoBody
                /\ pc' = "status"
    /\ nposts' = 1
    /\ attempted' = attempted \cup {item_id}
    /\ UNCHANGED <<max_posts, store, pending, entries, idx, posted_count,
                   slept, dbfails, crashes, interrupted, cycleStart,
                   delivered, cycleErr, failedId, retryDue, rawInput,
                   sortedOut, recorded>>
    /\ UNCHANGED <<redoDue, idOut, env, conn, bad, cycles>>

\* line 111: requests.post raises (timeout, connection refused)
Post1Error ==
    /\ pc = "post"
    /\ attempted' = attempted \cup {item_id}
    /\ DeliverRaises
    /\ UNCHANGED <<max_posts, store, pending, entries, idx, posted_count,
                   slept, dbfails, crashes, accepted, interrupted,
                   cycleStart, delivered, retryDue, rawInput, sortedOut,
                   recorded>>
    /\ UNCHANGED <<redoDue, idOut, env, conn, bad, cycles>>

\* lines 115-121: retry_after is read and slept
RetrySleep ==
    /\ pc = "retry_sleep"
    /\ slept' = <<"retry", RetryAfterOf(resp_body)>>
    /\ pc' = "post2"
    /\ UNCHANGED <<max_posts, store, pending, entries, idx, posted_count,
                   resp, resp_body, nposts, dbfails, crashes, accepted,
                   interrupted, cycleStart, attempted, delivered, cycleErr,
                   failedId, retryDue, rawInput, sortedOut, recorded>>
    /\ UNCHANGED <<redoDue, idOut, env, conn, bad, cycles>>

\* line 122: the second requests.post returns a response
Post2 ==
    /\ pc = "post2"
    /\ \E s \in Statuses :
        /\ resp' = s
        /\ accepted' = IF Success(s) THEN Bump(accepted, item_id) ELSE accepted
    /\ nposts' = nposts + 1
    /\ pc' = "status"
    /\ UNCHANGED <<max_posts, store, pending, entries, idx, posted_count,
                   resp_body, slept, dbfails, crashes, interrupted,
                   cycleStart, attempted, delivered, cycleErr, failedId,
                   retryDue, rawInput, sortedOut, recorded>>
    /\ UNCHANGED <<redoDue, idOut, env, conn, bad, cycles>>

\* line 122: the second requests.post raises
Post2Error ==
    /\ pc = "post2"
    /\ DeliverRaises
    /\ UNCHANGED <<max_posts, store, pending, entries, idx, posted_count,
                   slept, dbfails, crashes, accepted, interrupted,
                   cycleStart, attempted, delivered, retryDue, rawInput,
                   sortedOut, recorded>>
    /\ UNCHANGED <<redoDue, idOut, env, conn, bad, cycles>>

\* line 124: "if resp.status_code not in (200, 204): raise RuntimeError"
StatusRaises ==
    /\ pc = "status"
    /\ ~Success(resp)
    /\ DeliverRaises
    /\ UNCHANGED <<max_posts, store, pending, entries, idx, posted_count,
                   slept, dbfails, crashes, accepted, interrupted,
                   cycleStart, attempted, delivered, retryDue, rawInput,
                   sortedOut, recorded>>
    /\ UNCHANGED <<redoDue, idOut, env, conn, bad, cycles>>

\* post_to_discord_webhook returns: db_add is next
DeliverReturns ==
    /\ pc = "status"
    /\ Success(resp)
    /\ delivered' = Append(delivered, item_id)
    /\ resp' = 0
    /\ resp_body' = NoBody
    /\ nposts' = 0
    /\ pc' = "add_exec"
    /\ UNCHANGED <<max_posts, store, pending, entries, idx, posted_count,
                   slept, dbfails, crashes, accepted, interrupted,
                   cycleStart, attempted, cycleErr, failedId, retryDue,
                   rawInput, sortedOut, recorded>>
    /\ UNCHANGED <<redoDue, idOut, env, conn, bad, cycles>>

----------------------------------------------------------------------------
(* db_add, called from line 188 *)

\* lines 51-54: INSERT OR IGNORE with int(time.time()); an error of the
\* statement reaches the handler of main()
AddExec ==
    /\ pc = "add_exec"
    /\ LET r == InsertOrIgnore(store, pending,
                               Row(item_id, TitleOf(Cur), LinkOf(Cur), Now))
       IN  IF r.raises
           THEN /\ Handler("db")
                /\ pending' = pending
           ELSE /\ pc' = "add_commit"
                /\ pending' = r.rows
                /\ cycleErr' = cycleErr
    /\ UNCHANGED <<max_posts, store, entries, idx, posted_count, resp,
                   resp_body, nposts, slept, dbfails, crashes, accepted,
                   interrupted, cycleStart, attempted, delivered, failedId,
                   retryDue, recorded, rawInput, sortedOut>>
    /\ UNCHANGED <<redoDue, idOut, env, conn, bad, cycles>>

\* the INSERT raises another sqlite3.Error (disk, lock): nothing is inserted
AddExecError ==
    /\ pc = "add_exec"
    /\ dbfails < MaxDbFails
    /\ dbfails' = dbfails + 1
    /\ interrupted' = Bump(interrupted, item_id)
    /\ Handler("db")
    /\ UNCHANGED <<max_posts, store, pending, entries, idx, posted_count,
                   resp, resp_body, nposts, slept, crashes, accepted,
                   cycleStart, attempted, delivered, failedId, retryDue,
                   rawInput, sortedOut, recorded>>
    /\ UNCHANGED <<redoDue, idOut, env, conn, bad, cycles>>

\* line 55 returns, then "posted_count += 1" of line 189
AddCommit ==
    /\ pc = "add_commit"
    /\ store' = Commit(store, pending)
    /\ pending' = {}
    /\ posted_count' = posted_count + 1
    /\ recorded' = recorded \cup {item_id}
    /\ pc' = "delay"
    /\ UNCHANGED <<max_posts, entries, idx, resp, resp_body, nposts, slept,
                   dbfails, crashes, accepted, interrupted, cycleStart,
                   attempted, delivered, cycleErr, failedId, retryDue,
                   rawInput, sortedOut>>
    /\ UNCHANGED <<redoDue, idOut, env, conn, bad, cycles>>

\* conn.commit() raises: SQLite either keeps the transaction open, the row
\* still inserted in it, or rolls it back
AddCommitError ==
    /\ pc = "add_commit"
    /\ dbfails < MaxDbFails
    /\ dbfails' = dbfails + 1
    /\ pending' \in {pending, {}}
    /\ interrupted' = Bump(interrupted, item_id)
    /\ Handler("db")
    /\ UNCHANGED <<max_posts, store, entries, idx, posted_count, resp,
                   resp_body, nposts, slept, crashes, accepted, cycleStart,
                   attempted, delivered, failedId, retryDue, rawInput,
                   sortedOut, recorded>>
    /\ UNCHANGED <<redoDue, idOut, env, conn, bad, cycles>>

----------------------------------------------------------------------------
(* the sleeps of main() *)

\* on to the next entry without the sleep
DelaySkipped ==
    /\ pc = "delay"
    /\ idx' = idx + 1
    /\ pc' = "loop"
    /\ UNCHANGED <<max_posts, store, pending, entries, posted_count, resp,
                   resp_body, nposts, slept, dbfails, crashes, accepted,
                   interrupted, cycleStart, attempted, delivered, cycleErr,
                   failedId, retryDue, rawInput, sortedOut, recorded>>
    /\ UNCHANGED <<redoDue, idOut, env, conn, bad, cycles>>

\* line 192: time.sleep(delay_between), then the next entry
Delay ==
    /\ pc = "delay"
    /\ slept' = <<"delay", 10 * DelayBetweenSeconds>>
    /\ idx' = idx + 1
    /\ pc' = "loop"
    /\ UNCHANGED <<max_posts, store, pending, entries, posted_count, resp,
                   resp_body, nposts, dbfails, crashes, accepted,
                   interrupted, cycleStart, attempted, delivered, cycleErr,
                   failedId, retryDue, rawInput, sortedOut, recorded>>
    /\ UNCHANGED <<redoDue, idOut, env, conn, bad, cycles>>

\* line 202: time.sleep(check_interval), then the next iteration
Sleep ==
    /\ pc = "sleep"
    /\ slept' = <<"interval", 10 * CheckIntervalSeconds>>
    /\ pc' = "fetch"
    /\ UNCHANGED <<max_posts, store, pending, entries, idx, posted_count,
                   resp, resp_body, nposts, dbfails, crashes, accepted,
                   interrupted, cycleStart, attempted, delivered, cycleErr,
                   failedId, retryDue, rawInput, sortedOut, recorded>>
    /\ UNCHANGED <<redoDue, idOut, env, conn, bad, cycles>>

\* line 161: time.sleep(check_interval), then continue
SleepEmpty ==
    /\ pc = "sleep_empty"
    /\ slept' = <<"interval", 10 * CheckIntervalSeconds>>
    /\ pc' = "fetch"
    /\ UNCHANGED <<max_posts, store, pending, entries, idx, posted_count,
                   resp, resp_body, nposts, dbfails, crashes, accepted,
                   interrupted, cycleStart, attempted, delivered, cycleErr,
                   failedId, retryDue, rawInput, sortedOut, recorded>>
    /\ UNCHANGED <<redoDue, idOut, env, conn, bad, cycles>>

----------------------------------------------------------------------------
(* the process *)

\* the process is terminated: its memory and its open transaction are lost
Kill ==
    /\ pc # "dead"
    /\ crashes < MaxCrashes
    /\ crashes' = crashes + 1
    /\ interrupted' = IF AwaitsRecord THEN Bump(interrupted, item_id)
                      ELSE interrupted
    /\ pending' = {}
    /\ pc' = "dead"
    /\ entries' = <<>>
    /\ idx' = 1
    /\ posted_count' = 0
    /\ resp' = 0
    /\ resp_body' = NoBody
    /\ nposts' = 0
    /\ slept' = <<"none", 0>>
    /\ cycleStart' = {}
    /\ attempted' = {}
    /\ delivered' = <<>>
    /\ cycleErr' = "none"
    /\ failedId' = None
    /\ retryDue' = None
    /\ redoDue' = None
    /\ conn' = "closed"
    /\ UNCHANGED <<max_posts, store, dbfails, accepted, rawInput, sortedOut,
                   recorded>>
    /\ UNCHANGED <<idOut, env, bad, cycles>>

\* the process is started again on the same SQLITE_PATH
Restart ==
    /\ pc = "dead"
    /\ pc' = "start"
    /\ UNCHANGED <<max_posts, store, pending, entries, idx, posted_count,
                   resp, resp_body, nposts, slept, dbfails, crashes,
                   accepted, interrupted, cycleStart, attempted, delivered,
                   cycleErr, failedId, retryDue, rawInput, sortedOut,
                   recorded>>
    /\ UNCHANGED <<redoDue, idOut, env, conn, bad, cycles>>

\* the steps of the running process
Step ==
    \/ Startup
    \/ FetchFail
    \/ FetchEmpty
    \/ FetchOk
    \/ LoopDone
    \/ LoopBreak
    \/ SkipInvalid
    \/ Evaluate
    \/ SkipKnown
    \/ StartDeliver
    \/ Post1
    \/ Post1Error
    \/ RetrySleep
    \/ Post2
    \/ Post2Error
    \/ StatusRaises
    \/ DeliverReturns
    \/ AddExec
    \/ AddExecError
    \/ AddCommit
    \/ AddCommitError
    \/ Delay
    \/ Sleep
    \/ SleepEmpty

Next == Step \/ Kill \/ Restart

Spec == Init /\ [][Next]_vars

----------------------------------------------------------------------------
(* The ledger alone: db_add called with any id, title and link, on a      *)
(* connection that may be closed and opened again at any time             *)

MaxKeys == 2

LedgerKeys == {<<"k", n>> : n \in 1..MaxKeys}
LedgerTitles == {<<"A">>, <<"D">>}
LedgerLinks == {<<"x">>, <<"y">>}

LedgerInit ==
    /\ pc = "l_idle"
    /\ max_posts = 0
    /\ rawInput = <<>>
    /\ env = DefaultEnv
    /\ bad = None
    /\ Fresh

\* db_add, lines 51-54: the INSERT
LRecordExec ==
    /\ pc = "l_idle"
    /\ \E i \in LedgerKeys, t \in LedgerTitles, l \in LedgerLinks,
          at \in 1..MaxTime :
        /\ rawInput' = Row(i, t, l, at)
        /\ LET r == InsertOrIgnore(store, pending, rawInput')
           IN  /\ pc' = IF r.raises THEN "l_raised" ELSE "l_exec"
               /\ pending' = r.rows
    /\ UNCHANGED <<max_posts, store, entries, idx, posted_count, resp,
                   resp_body, nposts, slept, dbfails, crashes, accepted,
                   interrupted, cycleStart, attempted, delivered, cycleErr,
                   failedId, retryDue, recorded, sortedOut>>
    /\ UNCHANGED <<redoDue, idOut, env, conn, bad, cycles>>

\* db_add, line 55: the commit, and the return
LRecordCommit ==
    /\ pc = "l_exec"
    /\ store' = Commit(store, pending)
    /\ pending' = {}
    /\ recorded' = recorded \cup {rawInput.item_id}
    /\ pc' = "l_idle"
    /\ UNCHANGED <<max_posts, entries, idx, posted_count, resp, resp_body,
                   nposts, slept, dbfails, crashes, accepted, interrupted,
                   cycleStart, attempted, delivered, cycleErr, failedId,
                   retryDue, rawInput, sortedOut>>
    /\ UNCHANGED <<redoDue, idOut, env, conn, bad, cycles>>

\* the process ends before the commit and db_connect opens the file again
LReopen ==
    /\ pc = "l_exec"
    /\ pending' = {}
    /\ pc' = "l_idle"
    /\ UNCHANGED <<max_posts, store, entries, idx, posted_count, resp,
                   resp_body, nposts, slept, dbfails, crashes, accepted,
                   interrupted, cycleStart, attempted, delivered, cycleErr,
                   failedId, retryDue, recorded, rawInput, sortedOut>>
    /\ UNCHANGED <<redoDue, idOut, env, conn, bad, cycles>>

LedgerNext == LRecordExec \/ LRecordCommit \/ LReopen

LedgerSpec == LedgerInit /\ [][LedgerNext]_vars

----------------------------------------------------------------------------
(* The sort alone: sort_entries_newest_first on any snapshot *)

MaxSortLen == 3

SortEnt(t, pp, up) == Ent(None, None, <<"x">>, t, None, None, pp, up)

\* published 1970-01-03, 1970-01-02, the epoch itself, 1969-12-31; updated
\* only, 1970-01-03; and two entries with no time
SortPool ==
    {SortEnt(<<"p", "2">>, <<2>>, <<>>), SortEnt(<<"p", "1">>, <<1>>, <<>>),
     SortEnt(<<"p", "0">>, <<0>>, <<>>), SortEnt(<<"p", "-">>, <<-1>>, <<>>),
     SortEnt(<<"u", "2">>, <<>>, <<2>>),
     SortEnt(<<"n", "1">>, <<>>, <<>>), SortEnt(<<"n", "2">>, <<>>, <<>>)}

\* the snapshots: up to MaxSortLen entries, none twice
SortInputs ==
    UNION {{q \in [1..n -> SortPool] : \A j, k \in 1..n : q[j] = q[k] => j = k}
           : n \in 0..MaxSortLen}

SortInit ==
    /\ pc = "s_input"
    /\ max_posts = 0
    /\ rawInput \in SortInputs
    /\ env = DefaultEnv
    /\ bad = None
    /\ Fresh

\* line 164: entries = sort_entries_newest_first(entries)
SortCall ==
    /\ pc = "s_input"
    /\ sortedOut' = sort_entries_newest_first(rawInput)
    /\ pc' = "s_sorted"
    /\ UNCHANGED <<max_posts, store, pending, entries, idx, posted_count,
                   resp, resp_body, nposts, slept, dbfails, crashes,
                   accepted, interrupted, cycleStart, attempted, delivered,
                   cycleErr, failedId, retryDue, recorded, rawInput>>
    /\ UNCHANGED <<redoDue, idOut, env, conn, bad, cycles>>

SortNext == SortCall

SortSpec == SortInit /\ [][SortNext]_vars

----------------------------------------------------------------------------
(* The loop under steady conditions: the same snapshot at every poll, the
   ledger never failing, the process never terminated, and the endpoint
   answering every item with success in the end, except the item bad,
   which it refuses every time *)

MaxCycles == 3

SteadyInit ==
    /\ pc = "start"
    /\ max_posts \in 1..MaxCap
    /\ rawInput = <<>>
    /\ env = DefaultEnv
    /\ bad \in {None} \cup AllIds
    /\ Fresh

\* line 156 returns what it returned at the poll before; the polls are
\* counted up to MaxCycles
SteadyFetch ==
    /\ Fetched
    /\ entries = <<>> \/ entries' = entries
    /\ cycles' = IF cycles > MaxCycles THEN cycles ELSE cycles + 1

\* line 111: no error status for an item other than bad
SteadyPost1 ==
    /\ Post1
    /\ IF item_id = bad THEN ~Success(resp')
       ELSE Success(resp') \/ RateLimited(resp')

\* line 122: success for an item other than bad
SteadyPost2 ==
    /\ Post2
    /\ item_id = bad <=> ~Success(resp')

SteadyNext ==
    \/ Startup
    \/ SteadyFetch
    \/ LoopDone
    \/ LoopBreak
    \/ SkipInvalid
    \/ Evaluate
    \/ SkipKnown
    \/ StartDeliver
    \/ SteadyPost1
    \/ RetrySleep
    \/ SteadyPost2
    \/ StatusRaises
    \/ DeliverReturns
    \/ AddExec
    \/ AddCommit
    \/ Delay
    \/ Sleep

\* the process is never stopped: a step it can take it does take
SteadySpec == SteadyInit /\ [][SteadyNext]_vars /\ WF_vars(SteadyNext)

----------------------------------------------------------------------------
(* The start of main() on its own: any environment *)

ConfigInit ==
    /\ pc = "start"
    /\ max_posts = 0
    /\ rawInput = <<>>
    /\ env \in Envs
    /\ bad = None
    /\ Fresh

ConfigNext == Startup \/ StartupFails

ConfigSpec == ConfigInit /\ [][ConfigNext]_vars

----------------------------------------------------------------------------
(* normalize_id on its own: one call on any entry *)

\* what a field of an entry may hold: absent, empty, blank, padded
IdInputs ==
    {Ent(i, g, l, t, p, u, <<>>, <<>>) :
        i \in {None, <<>>, <<" ">>, <<"a">>, <<"a", " ">>},
        g \in {None, <<"b">>, <<" ", "b">>},
        l \in {None, <<>>, <<"x", " ">>},
        t \in {None, <<"T", " ">>},
        p \in {None, <<>>, <<" ">>, <<" ", "3">>},
        u \in {None, <<"7", " ">>}}

IdInit ==
    /\ pc = "n_input"
    /\ max_posts = 0
    /\ rawInput \in IdInputs
    /\ env = DefaultEnv
    /\ bad = None
    /\ Fresh

\* line 171: item_id = normalize_id(entry)
IdCall ==
    /\ pc = "n_input"
    /\ idOut' = normalize_id(rawInput)
    /\ pc' = "n_done"
    /\ UNCHANGED <<max_posts, store, pending, entries, idx, posted_count,
                   resp, resp_body, nposts, slept, dbfails, crashes,
                   accepted, interrupted, cycleStart, attempted, delivered,
                   cycleErr, failedId, retryDue, recorded, rawInput,
                   sortedOut>>
    /\ UNCHANGED <<redoDue, env, conn, bad, cycles>>

IdNext == IdCall

IdSpec == IdInit /\ [][IdNext]_vars

----------------------------------------------------------------------------
(* What the claims speak of *)

\* ids the connection sees in the ledger
LedgerNow == LedgerIds(Visible(store, pending))

\* ids the ledger gained since the running cycle fetched
Added == LedgerNow \ cycleStart

Range(q) == {q[k] : k \in 1..Len(q)}

\* the ids of the valid entries of es that are not in seen, each once, in
\* the order of es
RECURSIVE NewIdsFrom(_, _)
NewIdsFrom(es, seen) ==
    IF es = <<>> THEN <<>>
    ELSE LET e == Head(es)
             i == normalize_id(e)
         IN  IF Valid(e) /\ i \notin seen
             THEN <<i>> \o NewIdsFrom(Tail(es), seen \cup {i})
             ELSE NewIdsFrom(Tail(es), seen)

\* the new valid items of the running cycle's snapshot, in sorted order
NewIds == NewIdsFrom(entries, cycleStart)

\* a cycle is running or has just ended (its bookkeeping is in place)
InCycle == pc \notin {"start", "fetch", "dead"}

\* the process is inside post_to_discord_webhook
InDeliver == pc \in {"post", "retry_sleep", "post2", "status"}

----------------------------------------------------------------------------
(* C1: for every item id, over any sequence of cycles and restarts, the   *)
(* endpoint accepts at most one delivery of that id.  As stated this is   *)
(* C1_AtMostOnce, which a termination between the POST and the ledger     *)
(* write breaks.  What holds: the endpoint answers 200 or 204 to at most  *)
(* one POST of an id, plus one for every time the process was terminated  *)
(* or the ledger write raised between such a POST and the completion of   *)
(* its ledger write.                                                      *)

C1_AtMostOnce == \A i \in AllIds : accepted[i] <= 1

C1_AtMostOncePerInterruption ==
    \A i \in AllIds : accepted[i] <= 1 + interrupted[i]

\* an id was delivered, the process was terminated before the ledger write,
\* and the next run delivered the id again and recorded it
C1_Witness ==
    \E i \in AllIds :
        /\ accepted[i] = 2
        /\ interrupted[i] = 1
        /\ crashes = 1
        /\ i \in LedgerIds(store)

(* C2: in every cycle no POST is issued for an entry whose id is in the   *)
(* ledger when the entry is evaluated, a second entry of the snapshot     *)
(* with the id of an entry delivered and recorded earlier in the cycle    *)
(* included: inside post_to_discord_webhook the id is not in the ledger,  *)
(* no id POSTed in a cycle was in the ledger when the cycle fetched, and  *)
(* no id is delivered twice in a cycle.                                   *)

C2_NoPostForKnownId ==
    /\ InDeliver => item_id \notin LedgerNow
    /\ InCycle => attempted \cap cycleStart = {}
    /\ \A j, k \in 1..Len(delivered) : delivered[j] = delivered[k] => j = k

\* the second entry of <<P1, P4>> has the id delivered and recorded for the
\* first: the loop has passed it without a POST
C2_Witness ==
    /\ entries = <<P1, P4>>
    /\ pc = "loop"
    /\ idx = 3
    /\ delivered = <<normalize_id(P1)>>
    /\ normalize_id(P4) = normalize_id(P1)
    /\ accepted[normalize_id(P4)] = 1

(* C3: in every cycle the successful deliveries and the ledger records   *)
(* added never exceed maxPostsPerCycle; when the snapshot holds more new  *)
(* valid items than the cap and every delivery succeeds, exactly          *)
(* maxPostsPerCycle items, the first of the sorted order, are delivered   *)
(* and recorded, and the others are out of the ledger when the cycle      *)
(* ends.  As stated (C3_CapExact) a ledger operation that raises after a  *)
(* successful delivery breaks the second half: the item is delivered and  *)
(* not recorded, and the cycle ends there.  What holds                    *)
(* (C3_CapExactNoLedgerError) is the claim for cycles in which every      *)
(* delivery succeeds and no ledger operation raises.                      *)

\* the cycle has ended: the process is at the sleep of line 202
CycleOver == pc = "sleep"

FirstNew(n) == SubSeq(NewIds, 1, n)

C3_Cap ==
    InCycle =>
        /\ posted_count <= max_posts
        /\ Len(delivered) <= max_posts
        /\ Cardinality(Added) <= max_posts

C3_Exact ==
    /\ delivered = FirstNew(max_posts)
    /\ posted_count = max_posts
    /\ Added = Range(FirstNew(max_posts))

C3_CapExact ==
    /\ C3_Cap
    /\ (CycleOver /\ cycleErr \notin {"fetch", "deliver"}
            /\ Len(NewIds) > max_posts) => C3_Exact

C3_CapExactNoLedgerError ==
    /\ C3_Cap
    /\ (CycleOver /\ cycleErr = "none" /\ Len(NewIds) > max_posts) => C3_Exact

\* three new valid items under a cap of two: two were delivered and recorded
C3_Witness ==
    /\ CycleOver
    /\ cycleErr = "none"
    /\ max_posts = 2
    /\ Len(NewIds) = 3
    /\ Len(delivered) = 2
    /\ Cardinality(Added) = 2

(* C4: when the delivery of one item fails inside a cycle, the cycle      *)
(* goes on with the next candidate: every later new valid item of the     *)
(* snapshot is still attempted in the same cycle, up to the cap.          *)

C4_ContinuesAfterFailure ==
    (CycleOver /\ cycleErr = "deliver") =>
        \/ Range(NewIds) \subseteq attempted
        \/ posted_count >= max_posts

(* C5: when deliver fails for an item, no ledger record is added for its  *)
(* id in that cycle, the failure does not increase the cycle's count of   *)
(* posted items, and the item is attempted again in a later cycle in      *)
(* which it is still in the feed: the next cycle of the process that      *)
(* fetches the same snapshot and ends without a ledger error has POSTed   *)
(* the id again.                                                          *)

C6_Suspension == IF resp_body.kind = "num" THEN resp_body.val ELSE 20

C6_AtMostOneRetry ==
    [][ /\ nposts' <= 2
        /\ nposts' = 2 =>
            /\ pc = "post2"
            /\ nposts = 1
            /\ resp = 429
            /\ slept = <<"retry", C6_Suspension>>
        /\ (pc = "post" /\ nposts' = 1) => (pc' = "retry_sleep" <=> resp' = 429)
        /\ (pc = "post" /\ nposts' = 1) => (pc' = "status" <=> resp' # 429)
        /\ pc = "retry_sleep" => pc' \in {"post2", "dead"}
        /\ pc = "post2" => pc' \in {"status", "sleep", "dead"}
        /\ (pc = "status" /\ nposts = 2 /\ resp \notin {200, 204}) =>
            /\ pc' \in {"sleep", "dead"}
            /\ nposts' = 0
            /\ item_id \notin LedgerNow'
            /\ pc' = "sleep" => (cycleErr' = "deliver" /\ failedId' = item_id)
      ]_vars

\* the second POST, issued 2.0 s after a 429 whose retry_after float()
\* rejects, was answered 429 again
C6_Witness ==
    /\ pc = "status"
    /\ nposts = 2
    /\ resp = 429
    /\ resp_body.kind = "badvalue"
    /\ slept = <<"retry", 20>>

(* C7: the scheduler never halts: whatever a cycle does (fetch failure,   *)
(* empty feed, delivery failure, ledger write failure, normal end) the    *)
(* scheduler sleeps checkIntervalSeconds and starts another cycle; from   *)
(* every reachable state a new fetch eventually happens.                  *)

Fetch == FetchFail \/ FetchEmpty \/ FetchOk

\* the running process takes its next step sooner or later
FairSpec == Init /\ [][Step]_vars /\ WF_vars(Step)

C7_NeverHalts ==
    /\ []<><<Fetch>>_vars
    /\ [][pc' = "fetch" /\ pc # "start" =>
            /\ pc \in {"sleep", "sleep_empty"}
            /\ slept' = <<"interval", 3000>>]_vars
    /\ [](pc \in {"sleep", "sleep_empty"} => <>(pc = "fetch"))

\* a cycle that a ledger write error ended was followed by the sleep, and
\* the next fetch is due
C7_Witness ==
    /\ pc = "fetch"
    /\ cycleErr = "db"
    /\ delivered # <<>>
    /\ slept = <<"interval", 3000>>

(* C8: after ledger.record(id, ...) has returned, has(id) is true for     *)
(* every later lookup, in the same process and in every process started   *)
(* later on the same store, also when the process is terminated right     *)
(* after record returned: the row is in the file, which is what every     *)
(* connection sees.                                                       *)

C8_RecordedIsDurable ==
    \A i \in recorded :
        /\ i \in LedgerIds(store)
        /\ db_has(store, {}, i)
        /\ db_has(store, pending, i)

\* a process started after a termination looks up an id that an earlier
\* process recorded
C8_Witness ==
    /\ crashes = 1
    /\ pc = "has"
    /\ item_id \in recorded
    /\ delivered = <<>>

(* C9: record is idempotent: record(id) followed by any number of        *)
(* further record(id) calls, with the same or another title and link,     *)
(* never raises, leaves has(id) true, and leaves exactly one ledger       *)
(* record of that id.                                                     *)

RowsOf(rows, i) == {r \in rows : r.item_id = i}

C9_RecordIdempotent ==
    /\ pc # "l_raised"
    /\ \A i \in LedgerKeys :
        Cardinality(RowsOf(Visible(store, pending), i)) <= 1
    /\ \A i \in recorded :
        /\ db_has(store, pending, i)
        /\ Cardinality(RowsOf(store, i)) = 1
    /\ pc = "l_exec" => db_has(store, pending, rawInput.item_id)

\* record is called for an id recorded before, under another title and
\* link: the INSERT has run, the row of the first call is the one there
C9_Witness ==
    /\ pc = "l_exec"
    /\ rawInput.item_id \in recorded
    /\ rawInput \notin store
    /\ pending = {}
    /\ \E r \in store :
        /\ r.item_id = rawInput.item_id
        /\ r.title # rawInput.title
        /\ r.link # rawInput.link

(* C10: sorting a snapshot yields the entries in descending publish       *)
(* time, every entry with no timestamp after all timestamped entries,     *)
(* and entries with equal or absent timestamps in their original          *)
(* relative order, for every timestamp a feed entry may carry.            *)

\* the publish time: published, else updated; <<>> when the entry has none
PubTime(e) ==
    IF e.published_parsed # <<>> THEN e.published_parsed ELSE e.updated_parsed

PosIn(q, e) == CHOOSE k \in 1..Len(q) : q[k] = e

C10_NewestFirstAbsentLast ==
    pc = "s_sorted" =>
        /\ Range(sortedOut) = Range(rawInput)
        /\ Len(sortedOut) = Len(rawInput)
        /\ \A j, k \in 1..Len(sortedOut) :
            j < k =>
                LET a == PubTime(sortedOut[j])
                    b == PubTime(sortedOut[k])
                IN  /\ (a # <<>> /\ b # <<>>) => a[1] >= b[1]
                    /\ ~(a = <<>> /\ b # <<>>)
                    /\ a = b => PosIn(rawInput, sortedOut[j])
                                    < PosIn(rawInput, sortedOut[k])

----------------------------------------------------------------------------
(* C11 *)

\* title or link empty after trimming
C11_Blank(e) == TitleOf(e) = <<>> \/ LinkOf(e) = <<>>

\* the ids only blank entries carry
C11_BlankOnlyIds ==
    {normalize_id(e) : e \in {p \in Pool : C11_Blank(p)}}
        \ {normalize_id(e) : e \in {p \in Pool : ~C11_Blank(p)}}

\* the positions of the loop from db_has to the inter-item delay
AtEntry ==
    pc \in {"has", "post", "retry_sleep", "post2", "status", "add_exec",
            "add_commit", "delay"}

\* C11: an entry whose title or link is empty after trimming is never
\* looked up, never posted and never recorded, in any cycle, and the
\* count toward the cap never exceeds the number of non-blank entries
\* the loop has come to.
C11_BlankEntrySkipped ==
    /\ AtEntry => ~C11_Blank(Cur)
    /\ \A i \in C11_BlankOnlyIds :
           accepted[i] = 0 /\ i \notin attempted /\ i \notin LedgerNow
    /\ \A r \in Visible(store, pending) : r.title # <<>> /\ r.link # <<>>
    /\ (pc = "loop" \/ AtEntry) =>
           posted_count <=
               Cardinality({k \in 1..Len(entries) :
                                k <= idx /\ ~C11_Blank(entries[k])})

\* the blank entry sorts first under a cap of 1, and the entry after it
\* is still delivered and recorded
C11_Witness ==
    /\ CycleOver
    /\ cycleErr = "none"
    /\ max_posts = 1
    /\ entries = <<P5, P1>>
    /\ delivered = <<normalize_id(P1)>>
    /\ posted_count = 1
    /\ LedgerNow = {normalize_id(P1)}

----------------------------------------------------------------------------
(* C12 *)

\* the item whose db_add ended the cycle: the last one delivered
Unrecorded == delivered[Len(delivered)]

\* C12: when db_add raises after a delivery that succeeded, the process
\* goes on to the sleep of the cycle, the item is not in the ledger, the
\* next cycle that runs to its end on the same snapshot delivers the item
\* again, and with one such failure no item is accepted more than twice.
C12_FailedRecordIsRedelivered ==
    /\ (CycleOver /\ cycleErr = "db") => Unrecorded \notin LedgerNow
    /\ (CycleOver /\ cycleErr = "none" /\ redoDue # None) =>
           redoDue \in Range(delivered)
    /\ (crashes = 0 /\ dbfails <= 1) => \A i \in AllIds : accepted[i] <= 2

----------------------------------------------------------------------------
(* C13 *)

\* a field is present: the entry has it and it is not empty
Present(v) == v # None /\ v # <<>>

Sep == <<":", ":">>

\* title and published (updated when published is not present), trimmed
Composite(e) ==
    (IF Present(e.title) THEN Strip(e.title) ELSE <<>>) \o Sep
        \o (IF Present(e.published) THEN Strip(e.published)
            ELSE IF Present(e.updated) THEN Strip(e.updated) ELSE <<>>)

\* C13 as the spec words it: the identity is the id the feed provides if
\* present, else the guid, else the link, each as provided, else the
\* trimmed title, "::" and the trimmed published (or updated) string.
C13_IdentityAsProvided ==
    pc = "n_done" =>
        idOut = (CASE Present(rawInput.id) -> rawInput.id
                   [] ~Present(rawInput.id) /\ Present(rawInput.guid) ->
                          rawInput.guid
                   [] ~Present(rawInput.id) /\ ~Present(rawInput.guid)
                      /\ Present(rawInput.link) -> rawInput.link
                   [] OTHER -> Composite(rawInput))

\* C13, amended: the identity is the id if present, else the guid, else
\* the link, each trimmed of surrounding whitespace, else the trimmed
\* title, "::" and the trimmed published (or updated) string; an empty
\* field counts as absent.
C13_IdentityTrimmed ==
    pc = "n_done" =>
        idOut = (CASE Present(rawInput.id) -> Strip(rawInput.id)
                   [] ~Present(rawInput.id) /\ Present(rawInput.guid) ->
                          Strip(rawInput.guid)
                   [] ~Present(rawInput.id) /\ ~Present(rawInput.guid)
                      /\ Present(rawInput.link) -> Strip(rawInput.link)
                   [] OTHER -> Composite(rawInput))

\* an empty id, no guid, an empty link and an empty published: the
\* identity is the trimmed title, "::" and the trimmed updated
C13_Witness ==
    /\ pc = "n_done"
    /\ rawInput = Ent(<<>>, None, <<>>, <<"T", " ">>, <<>>, <<"7", " ">>,
                      <<>>, <<>>)
    /\ idOut = <<"T", ":", ":", "7">>

----------------------------------------------------------------------------
(* C14 *)

\* C14: every item that is looked up in the ledger, posted or recorded
\* has a non-empty id, whatever the entries of the feed hold.
C14_IdNonEmpty ==
    /\ AtEntry => item_id # <<>>
    /\ \A i \in AllIds :
           (i \in attempted \/ accepted[i] > 0 \/ i \in LedgerNow) =>
               i # <<>>

----------------------------------------------------------------------------
(* C15 *)

\* C15: post_to_discord_webhook returns only when the last response has
\* status 200 or 204; a first response with a status other than 200, 204
\* and 429 goes to the status check at once, which raises, with no sleep
\* and no second POST in between.
C15_ReturnsOnlyOnSuccess ==
    [][ /\ Len(delivered') > Len(delivered) =>
            /\ pc = "status"
            /\ resp \in {200, 204}
            /\ delivered' = Append(delivered, item_id)
        /\ (pc = "post" /\ nposts' = 1 /\ resp' \notin {200, 204, 429}) =>
            /\ pc' = "status"
            /\ slept' = slept
        /\ (pc = "status" /\ nposts = 1 /\ resp \notin {200, 204}) =>
            /\ pc' \in {"sleep", "dead"}
            /\ nposts' = 0
            /\ pc' = "sleep" =>
                /\ slept' = slept
                /\ delivered' = delivered
                /\ cycleErr' = "deliver"
      ]_vars

\* the first POST of the process was answered 500: the status check is
\* next, and nothing has slept
C15_Witness ==
    /\ pc = "status"
    /\ resp = 500
    /\ nposts = 1
    /\ slept = <<"none", 0>>

----------------------------------------------------------------------------
(* C16 *)

\* the scheme is http or https
SchemeIsHttpOrHttps(scheme) ==
    scheme \in {<<"h", "t", "t", "p">>, <<"h", "t", "t", "p", "s">>}

\* C16: main() ends at startup, the ledger not opened, whenever one of
\* WEBHOOK_URL, RSS_URL and SQLITE_PATH is missing or empty or the scheme
\* of WEBHOOK_URL is neither http nor https; it goes on to the loop only
\* with a WEBHOOK_URL whose scheme is http or https.
C16_StartupValidates ==
    /\ pc = "exited" => conn = "closed"
    /\ pc \notin {"start", "exited"} =>
           /\ \A k \in {"WEBHOOK_URL", "RSS_URL", "SQLITE_PATH"} :
                  env[k] # None /\ env[k] # <<>>
           /\ SchemeIsHttpOrHttps(UrlScheme(env.WEBHOOK_URL))

----------------------------------------------------------------------------
(* C17 *)

\* C17: every id in the ledger, committed or inserted on the connection,
\* is the id of an item whose POST was answered 200 or 204 before; the
\* committed table holds one row per id, and a step never removes a
\* committed row or changes its title, link or posted_at.
C17_LedgerOnlyGrows ==
    /\ [](\A r \in Visible(store, pending) : accepted[r.item_id] >= 1)
    /\ [](\A r, q \in store : r.item_id = q.item_id => r = q)
    /\ [][store \subseteq store']_vars

\* a row written by the first process is still there, as it was, when
\* the second process has committed its own
C17_Witness ==
    /\ crashes = 1
    /\ \E r, q \in store : r.posted_at = 1 /\ q.posted_at = 2

----------------------------------------------------------------------------
(* C18 *)

\* C18: once post_to_discord_webhook has returned for an entry, the steps
\* of the cycle are db_add for that entry, then the sleep of
\* DELAY_BETWEEN_POSTS_SECONDS, and only then the next entry: the loop
\* moves past a delivered entry only by that sleep, a ledger lookup
\* starts only at the head of the loop, and a POST only after a lookup.
C18_DeliverRecordDelayNext ==
    [][ /\ (pc = "status" /\ pc' \notin {"sleep", "dead"}) =>
            (pc' = "add_exec" /\ idx' = idx)
        /\ pc = "add_exec" =>
            /\ pc' \in {"add_commit", "sleep", "dead"}
            /\ pc' = "add_commit" => idx' = idx
        /\ pc = "add_commit" =>
            /\ pc' \in {"delay", "sleep", "dead"}
            /\ pc' = "delay" => (idx' = idx /\ item_id \in LedgerIds(store'))
        /\ pc = "delay" =>
            /\ pc' \in {"loop", "dead"}
            /\ pc' = "loop" =>
                /\ slept' = <<"delay", 10 * DelayBetweenSeconds>>
                /\ idx' = idx + 1
        /\ pc' = "has" => (pc = "loop" /\ idx' = idx)
        /\ pc' = "post" => (pc = "has" /\ idx' = idx)
        /\ nposts' > nposts => pc \in {"post", "post2"}
        /\ (pc' = "loop" /\ idx' > idx) => pc \in {"loop", "has", "delay"}
      ]_vars

\* the first entry was delivered and recorded and its delay slept; the
\* lookup for the second entry is next
C18_Witness ==
    /\ pc = "has"
    /\ idx = 2
    /\ delivered = <<normalize_id(entries[1])>>
    /\ normalize_id(entries[1]) \in LedgerIds(store)
    /\ slept = <<"delay", 10 * DelayBetweenSeconds>>

----------------------------------------------------------------------------
(* C19 *)

\* the ids of the valid entries of the snapshot, the ledger empty at first
Wanted == Range(NewIdsFrom(entries, {}))

Least(a, b) == IF a <= b THEN a ELSE b

\* every wanted item is delivered and recorded, once
C19_Done ==
    /\ entries # <<>>
    /\ \A i \in Wanted :
           i \in LedgerIds(store) /\ i \in recorded /\ accepted[i] = 1

\* C19: with the same snapshot at every poll, a cap of at least 1 and
\* every delivery and ledger write succeeding, no item is accepted twice,
\* the ledger holds min(N, k * cap) of the N wanted items when the k-th
\* cycle ends, so that all are there after ceil(N / cap) cycles and not
\* before, and every item is delivered and recorded in the end.
C19_AllDeliveredInCeilCycles ==
    /\ [](bad = None => \A i \in AllIds : accepted[i] <= 1)
    /\ []((bad = None /\ CycleOver /\ cycles <= MaxCycles) =>
              /\ LedgerIds(store) \subseteq Wanted
              /\ Cardinality(LedgerIds(store))
                     = Least(Cardinality(Wanted), cycles * max_posts))
    /\ (bad = None ~> C19_Done)

\* three items under a cap of 2: all are recorded when the second cycle
\* ends
C19_Witness ==
    /\ bad = None
    /\ CycleOver
    /\ max_posts = 2
    /\ Cardinality(Wanted) = 3
    /\ cycles = 2
    /\ C19_Done

----------------------------------------------------------------------------
(* C20 *)

\* C20: with the same snapshot at every poll and every delivery but
\* those of one item succeeding, every other valid item of the snapshot
\* is delivered and recorded in the end, wherever it sorts.
C20_OthersNotBlocked ==
    <>(entries # <<>> /\ \A i \in Wanted \ {bad} : i \in LedgerIds(store))

====
